---- MODULE Spec2Model ----
(***************************************************************************)
(* Model of the Counter multiset of src/src/lib.rs: a HashMap from keys to *)
(* counts plus a materialised zero.  A counter's map is a TLA+ function    *)
(* whose DOMAIN is the set of stored keys.  The iteration order of a       *)
(* HashMap is unspecified, so every loop over a map takes the order as an  *)
(* input that the actions choose freely.                                   *)
(***************************************************************************)
EXTENDS Integers, Sequences, FiniteSets

VARIABLES c, d, pre_c, op, out, flag, seq, k, ranked, panicked, c0, idx_key, val,
          tie, tie_calls, peeked, fed

vars == <<c, d, pre_c, op, out, flag, seq, k, ranked, panicked, c0, idx_key, val,
          tie, tie_calls, peeked, fed>>

\* ----------------------------------------------------------------- bounds
MaxKey == 2
MaxCount == 1
MaxLen == 3
MaxRankKey == 3
MaxTuples == 2

Keys == 1..MaxKey
RankKeys == 1..MaxRankKey
Counts == (0 - MaxCount)..MaxCount
Counters(K) == UNION {[S -> Counts] : S \in SUBSET K}
Seqs(K) == UNION {[1..n -> K] : n \in 0..MaxLen}
\* iterables of (item, count) tuples
TupleSeqs(K) == UNION {[1..n -> K \X Counts] : n \in 0..MaxTuples}
Orders(S) == {s \in [1..Cardinality(S) -> S] :
                \A i, j \in 1..Cardinality(S) : i # j => s[i] # s[j]}

\* the closures F: FnMut(&T, &T) -> Ordering that are a total order on K, one
\* for each way of lining the keys up
TieBreakers(K) ==
    {[a \in K, b \in K |->
        LET at(x) == CHOOSE i \in 1..Len(line) : line[i] = x
        IN  IF at(a) < at(b) THEN "Less"
            ELSE IF at(a) > at(b) THEN "Greater" ELSE "Equal"] : line \in Orders(K)}

\* ------------------------------------------------------- the numeric trait
zero == 0
one == 1

\* std::cmp::Ordering of two counts or two keys
cmp(a, b) == IF a < b THEN "Less" ELSE IF a > b THEN "Greater" ELSE "Equal"

min_lhs(a, b) == a
min(a, b) == IF a <= b THEN a ELSE b

\* ------------------------------------------------------------- the store
new == << >>

insert(map, key, value) ==
    [x \in (DOMAIN map) \cup {key} |-> IF x = key THEN value ELSE map[x]]

remove(map, key) == [x \in (DOMAIN map) \ {key} |-> map[x]]

\* map.entry(key).or_insert_with(N::zero)
or_insert_zero(map, key) == IF key \in DOMAIN map THEN map ELSE insert(map, key, zero)

index_zero_field(self, key) == zero

\* Index::index: the stored count, or the zero field for a missing key
index(self, key) == IF key \in DOMAIN self THEN self[key] ELSE zero

\* HashMap's PartialEq: as many entries, and every entry of self is an entry
\* of other
map_eq(self, other) ==
    /\ Cardinality(DOMAIN self) = Cardinality(DOMAIN other)
    /\ \A x \in DOMAIN self : x \in DOMAIN other /\ self[x] = other[x]

eq_reads(self, other) ==
    \A x \in (DOMAIN self) \cup (DOMAIN other) : index(self, x) = index(other, x)

\* derive(PartialEq) on Counter: the maps are equal and the zero fields are
eq(self, other) == map_eq(self, other) /\ zero = zero

\* ------------------------------------------------------ the update engine
update_item_set(map, item) == insert(map, item, one)

update_item(map, item) ==
    LET entered == or_insert_zero(map, item)
    IN  insert(entered, item, entered[item] + one)

RECURSIVE update(_, _)
update(self, iterable) ==
    IF iterable = << >> THEN self
    ELSE update(update_item(self, Head(iterable)), Tail(iterable))

init(iterable) == update(new, iterable)

total_len(self) == Cardinality(DOMAIN self)

\* Counter::total: self.map.values().sum()
RECURSIVE total(_)
total(self) ==
    IF DOMAIN self = {} THEN 0
    ELSE LET x == CHOOSE x \in DOMAIN self : TRUE
         IN  self[x] + total(remove(self, x))

\* HashMap::len, reached through Deref
map_len(self) == Cardinality(DOMAIN self)

subtract_item_keep(map, item) ==
    IF item \in DOMAIN map
    THEN IF map[item] > zero THEN insert(map, item, map[item] - one) ELSE map
    ELSE map

subtract_item_skip_zero(map, item) ==
    IF item \in DOMAIN map
    THEN IF map[item] > zero
         THEN IF map[item] - one = zero THEN remove(map, item)
              ELSE insert(map, item, map[item] - one)
         ELSE map
    ELSE map

subtract_item(map, item) ==
    IF item \in DOMAIN map
    THEN LET entry == IF map[item] > zero THEN map[item] - one ELSE map[item]
             rm == (entry = zero)
         IN  IF rm THEN remove(map, item) ELSE insert(map, item, entry)
    ELSE map

RECURSIVE subtract(_, _)
subtract(self, iterable) ==
    IF iterable = << >> THEN self
    ELSE subtract(subtract_item(self, Head(iterable)), Tail(iterable))

\* ------------------------------------------------------------ set algebra
\* self.keys().chain(other.keys()), each map iterated in its own order
chain(ord_self, ord_other) == ord_self \o ord_other

is_superset_self_keys(self, other, ord_self, ord_other) ==
    \A i \in 1..Len(ord_self) : index(self, ord_self[i]) >= index(other, ord_self[i])

is_superset(self, other, ord_self, ord_other) ==
    LET keys == chain(ord_self, ord_other)
    IN  \A i \in 1..Len(keys) : index(self, keys[i]) >= index(other, keys[i])

is_subset_self_keys(self, other, ord_self, ord_other) ==
    \A i \in 1..Len(ord_self) : index(self, ord_self[i]) <= index(other, ord_self[i])

is_subset(self, other, ord_self, ord_other) ==
    LET keys == chain(ord_self, ord_other)
    IN  \A i \in 1..Len(keys) : index(self, keys[i]) <= index(other, keys[i])

\* one turn of the loop of bitand: st = [counter, rhs]
bitand_step(st, key, lhs_count) ==
    IF key \in DOMAIN st.rhs
    THEN LET rhs_count == st.rhs[key]
             count == min(lhs_count, rhs_count)
         IN  [counter |-> insert(st.counter, key, count), rhs |-> remove(st.rhs, key)]
    ELSE st

RECURSIVE bitand_loop(_, _, _, _)
bitand_loop(self, st, ord, i) ==
    IF i > Len(ord) THEN st.counter
    ELSE bitand_loop(self, bitand_step(st, ord[i], self[ord[i]]), ord, i + 1)

\* ord: the iteration order of self.map
bitand(self, rhs, ord) == bitand_loop(self, [counter |-> new, rhs |-> rhs], ord, 1)

bitand_assign_step(map, key, rhs_count) ==
    IF rhs_count < index(map, key) THEN insert(map, key, rhs_count) ELSE map

RECURSIVE bitand_assign_loop(_, _, _, _)
bitand_assign_loop(map, rhs, ord, i) ==
    IF i > Len(ord) THEN map
    ELSE bitand_assign_loop(bitand_assign_step(map, ord[i], rhs[ord[i]]), rhs, ord, i + 1)

\* ord: the order in which rhs.drain() yields the entries of rhs
bitand_assign(self, rhs, ord) == bitand_assign_loop(self, rhs, ord, 1)

bitor_step_strict(map, key, rhs_value) ==
    IF rhs_value > index(map, key) THEN insert(map, key, rhs_value) ELSE map

bitor_step(map, key, rhs_value) ==
    LET entered == or_insert_zero(map, key)
    IN  IF rhs_value >= entered[key] THEN insert(entered, key, rhs_value) ELSE entered

RECURSIVE bitor_loop(_, _, _, _)
bitor_loop(map, rhs, ord, i) ==
    IF i > Len(ord) THEN map
    ELSE bitor_loop(bitor_step(map, ord[i], rhs[ord[i]]), rhs, ord, i + 1)

\* ord: the iteration order of rhs.map
bitor(self, rhs, ord) == bitor_loop(self, rhs, ord, 1)

bitor_assign_step(map, key, rhs_count) ==
    IF rhs_count > index(map, key) THEN insert(map, key, rhs_count) ELSE map

RECURSIVE bitor_assign_loop(_, _, _, _)
bitor_assign_loop(map, rhs, ord, i) ==
    IF i > Len(ord) THEN map
    ELSE bitor_assign_loop(bitor_assign_step(map, ord[i], rhs[ord[i]]), rhs, ord, i + 1)

\* ord: the order in which rhs.drain() yields the entries of rhs
bitor_assign(self, rhs, ord) == bitor_assign_loop(self, rhs, ord, 1)

\* ------------------------------------------------------ the ranking engine
\* Ordering::then_with
then_with(first, second) == IF first # "Equal" THEN first ELSE second

\* slice::sort_unstable_by: every element is placed before the first element
\* that compares Greater than it; compare is the closure, a function of two
\* elements
sort_unstable_by(items, compare) ==
    LET place(s, x) ==
            LET pos == CHOOSE p \in 1..(Len(s) + 1) :
                          /\ \A j \in 1..(p - 1) : compare[s[j], x] # "Greater"
                          /\ (p = Len(s) + 1 \/ compare[s[p], x] = "Greater")
            IN  SubSeq(s, 1, pos - 1) \o <<x>> \o SubSeq(s, pos, Len(s))
        sorted[i \in 0..Len(items)] ==
            IF i = 0 THEN << >> ELSE place(sorted[i - 1], items[i])
    IN  sorted[Len(items)]

then_with_calls_always(first) == TRUE

\* whether Ordering::then_with invokes its closure
then_with_calls(first) == first = "Equal"

\* the pairs of keys the closure of the sort may hand to tiebreaker:
\* sort_unstable_by may compare any two elements of the slice, and then_with
\* decides whether the comparison reaches tiebreaker
most_common_tiebreaker_calls(self) ==
    {p \in (DOMAIN self) \X (DOMAIN self) :
        p[1] # p[2] /\ then_with_calls(cmp(self[p[2]], self[p[1]]))}

most_common_tiebreaker_unbroken(self, ord, tiebreaker) ==
    LET items == [i \in 1..Len(ord) |-> <<ord[i], self[ord[i]]>>]
        elems == {items[i] : i \in 1..Len(items)}
        compare == [a \in elems, b \in elems |-> cmp(b[2], a[2])]
    IN  sort_unstable_by(items, compare)

\* items are <<key, count>> pairs; ord is the iteration order of self.map;
\* tiebreaker is the caller's closure, a function of two keys
most_common_tiebreaker(self, ord, tiebreaker) ==
    LET items == [i \in 1..Len(ord) |-> <<ord[i], self[ord[i]]>>]
        elems == {items[i] : i \in 1..Len(items)}
        compare == [a \in elems, b \in elems |->
                       then_with(cmp(b[2], a[2]), tiebreaker[a[1], b[1]])]
    IN  sort_unstable_by(items, compare)

\* Ord::cmp on the keys of a counter, as a closure
ord_cmp(keys) == [a \in keys, b \in keys |-> cmp(a, b)]

most_common_ordered(self, ord) == most_common_tiebreaker(self, ord, ord_cmp(DOMAIN self))

\* Ord of the heap's elements (Reverse(n), t): a larger count is a smaller
\* element, equal counts are ordered by key
item_gt(a, b) == a.n < b.n \/ (a.n = b.n /\ a.t > b.t)

\* BinaryHeap::peek_mut: the greatest element of the heap
heap_root(heap) == CHOOSE r \in heap : \A x \in heap : ~item_gt(x, r)

scan_step_pop(st, item) ==
    IF st.heap = {} THEN [st EXCEPT !.panicked = TRUE]
    ELSE LET root == heap_root(st.heap)
         IN  IF item_gt(root, item)
             THEN [st EXCEPT !.heap = st.heap \ {root}]
             ELSE st

scan_step_keep(st, item) ==
    IF st.heap = {} THEN [st EXCEPT !.panicked = TRUE] ELSE st

\* one turn of items.for_each: st = [heap, panicked]
scan_step(st, item) ==
    IF st.heap = {} THEN [st EXCEPT !.panicked = TRUE]
    ELSE LET root == heap_root(st.heap)
         IN  IF item_gt(root, item)
             THEN [st EXCEPT !.heap = (st.heap \ {root}) \cup {item}]
             ELSE st

RECURSIVE scan(_, _, _)
scan(st, items, i) ==
    IF i > Len(items) \/ st.panicked THEN st
    ELSE scan(scan_step(st, items[i]), items, i + 1)

\* BinaryHeap::into_sorted_vec: the elements in ascending order
RECURSIVE into_sorted_vec(_)
into_sorted_vec(heap) ==
    IF heap = {} THEN << >>
    ELSE LET least == CHOOSE r \in heap : \A x \in heap : ~item_gt(r, x)
         IN  <<least>> \o into_sorted_vec(heap \ {least})

\* the heap after steps 1 and 2 of k_most_common_ordered, for 0 < k < len
k_scan(self, ord, kk) ==
    LET items == [i \in 1..Len(ord) |-> [n |-> self[ord[i]], t |-> ord[i]]]
        heap == {items[i] : i \in 1..kk}
    IN  scan([heap |-> heap, panicked |-> FALSE], items, kk + 1)

k_most_common_ordered(self, ord, kk) ==
    IF kk = 0 THEN << >>
    ELSE IF kk >= Cardinality(DOMAIN self) THEN most_common_ordered(self, ord)
    ELSE LET sorted == into_sorted_vec(k_scan(self, ord, kk).heap)
         IN  [i \in 1..Len(sorted) |-> <<sorted[i].t, sorted[i].n>>]

\* whether heap.peek_mut().expect("the heap is empty") fails
k_most_common_panics(self, ord, kk) ==
    IF kk = 0 \/ kk >= Cardinality(DOMAIN self) THEN FALSE
    ELSE k_scan(self, ord, kk).panicked

\* the sizes of the heap found by each heap.peek_mut() of the scan
RECURSIVE scan_peeks(_, _, _)
scan_peeks(st, items, i) ==
    IF i > Len(items) \/ st.panicked THEN {}
    ELSE {Cardinality(st.heap)} \cup scan_peeks(scan_step(st, items[i]), items, i + 1)

k_most_common_peeks(self, ord, kk) ==
    IF kk = 0 \/ kk >= Cardinality(DOMAIN self) THEN {}
    ELSE LET items == [i \in 1..Len(ord) |-> [n |-> self[ord[i]], t |-> ord[i]]]
             heap == {items[i] : i \in 1..kk}
         IN  scan_peeks([heap |-> heap, panicked |-> FALSE], items, kk + 1)

\* whether k_most_common_ordered(kk) returns self.most_common_ordered()
k_most_common_sorts(self, kk) == kk # 0 /\ kk >= Cardinality(DOMAIN self)

\* ------------------------------------------------- merging two counters
add_assign_step_set(map, key, value) == insert(map, key, value)

add_assign_step_skip_zero(map, key, value) ==
    IF value = zero THEN map
    ELSE LET entered == or_insert_zero(map, key)
         IN  insert(entered, key, entered[key] + value)

\* one turn of the loop of add_assign
add_assign_step(map, key, value) ==
    LET entered == or_insert_zero(map, key)
    IN  insert(entered, key, entered[key] + value)

RECURSIVE add_assign_loop(_, _, _, _)
add_assign_loop(map, rhs, ord, i) ==
    IF i > Len(ord) THEN map
    ELSE add_assign_loop(add_assign_step(map, ord[i], rhs[ord[i]]), rhs, ord, i + 1)

\* ord: the iteration order of rhs.map
add_assign(self, rhs, ord) == add_assign_loop(self, rhs, ord, 1)

\* self += rhs; self
add(self, rhs, ord) == add_assign(self, rhs, ord)

sub_assign_step_keep_zero(map, key, value) ==
    IF key \in DOMAIN map
    THEN IF map[key] >= value THEN insert(map, key, map[key] - value)
         ELSE remove(map, key)
    ELSE map

sub_assign_step_no_clamp(map, key, value) ==
    IF key \in DOMAIN map
    THEN IF map[key] - value = zero THEN remove(map, key)
         ELSE insert(map, key, map[key] - value)
    ELSE map

\* one turn of the loop of sub_assign
sub_assign_step(map, key, value) ==
    IF key \in DOMAIN map
    THEN LET fits == map[key] >= value
             entry == IF fits THEN map[key] - value ELSE map[key]
             rm == ~fits \/ entry = zero
         IN  IF rm THEN remove(map, key) ELSE insert(map, key, entry)
    ELSE map

RECURSIVE sub_assign_loop(_, _, _, _)
sub_assign_loop(map, rhs, ord, i) ==
    IF i > Len(ord) THEN map
    ELSE sub_assign_loop(sub_assign_step(map, ord[i], rhs[ord[i]]), rhs, ord, i + 1)

\* ord: the iteration order of rhs.map
sub_assign(self, rhs, ord) == sub_assign_loop(self, rhs, ord, 1)

\* self -= rhs; self
sub(self, rhs, ord) == sub_assign(self, rhs, ord)

\* ------------------------------------------------------ the indexing facade
index_mut_reset(self, x) == insert(self, x, zero)

\* IndexMut::index_mut: the map once the slot exists
index_mut(self, x) == or_insert_zero(self, x)

\* AddAssign<I>::add_assign and Extend<T>::extend: self.update(iter)
add_assign_iter(self, iterable) == update(self, iterable)

extend(self, iterable) == update(self, iterable)

\* SubAssign<I>::sub_assign: self.subtract(rhs)
sub_assign_iter(self, rhs) == subtract(self, rhs)

\* ------------------------------------------- (item, count) tuples as input
\* FromIterator<(T, N)>::from_iter: the loop, from Counter::new()
RECURSIVE from_iter_loop(_, _)
from_iter_loop(cnt, iter) ==
    IF iter = << >> THEN cnt
    ELSE LET item == Head(iter)[1]
             item_count == Head(iter)[2]
             entered == or_insert_zero(cnt, item)
         IN  from_iter_loop(insert(entered, item, entered[item] + item_count), Tail(iter))

from_iter(iter) == from_iter_loop(new, iter)

extend_tuples_step_set(map, item, item_count) == insert(map, item, item_count)

\* one turn of the loop of Extend<(T, N)>::extend
extend_tuples_step(map, item, item_count) ==
    LET entered == or_insert_zero(map, item)
    IN  insert(entered, item, entered[item] + item_count)

\* Extend<(T, N)>::extend
RECURSIVE extend_tuples(_, _)
extend_tuples(self, iter) ==
    IF iter = << >> THEN self
    ELSE extend_tuples(extend_tuples_step(self, Head(iter)[1], Head(iter)[2]), Tail(iter))

\* ---------------------------------------------------------------- actions
\* Every action records the receiver as it was before the call in pre_c and
\* resets the result registers it does not set; c0 stays the receiver as the
\* caller built it, or the Counter::new() that Counter::init starts from; fed collects the elements
\* that init, update, c += S and extend have counted since the start.  A behaviour is one call on
\* operands as they were built (op = "new"); the calls that take a sequence
\* of keys may also follow Counter::init or a mutable index, and c -= d may
\* follow c += d.
Fresh == op = "new"

Built == op \in {"new", "init", "index_mut"}

Returns(name, self, value, answer, iterable, kk, vec, failed) ==
    /\ op' = name
    /\ pre_c' = c
    /\ c' = self
    /\ d' = d
    /\ out' = value
    /\ flag' = answer
    /\ seq' = iterable
    /\ k' = kk
    /\ ranked' = vec
    /\ panicked' = failed
    /\ c0' = c0
    /\ idx_key' = 0
    /\ val' = zero
    /\ tie' = << >>
    /\ tie_calls' = {}
    /\ peeked' = {}
    /\ fed' = IF name \in {"update", "add_assign_iter", "extend"}
              THEN fed \o iterable ELSE fed

\* out = c & d
BitAnd ==
    /\ Fresh
    /\ \E ord \in Orders(DOMAIN c) :
        Returns("bitand", c, bitand(c, d, ord), FALSE, << >>, 0, << >>, FALSE)

\* c &= d
BitAndAssign ==
    /\ Fresh
    /\ \E ord \in Orders(DOMAIN d) :
        Returns("bitand_assign", bitand_assign(c, d, ord), new, FALSE, << >>, 0, << >>, FALSE)

\* out = c | d
BitOr ==
    /\ Fresh
    /\ \E ord \in Orders(DOMAIN d) :
        Returns("bitor", c, bitor(c, d, ord), FALSE, << >>, 0, << >>, FALSE)

\* c |= d
BitOrAssign ==
    /\ Fresh
    /\ \E ord \in Orders(DOMAIN d) :
        Returns("bitor_assign", bitor_assign(c, d, ord), new, FALSE, << >>, 0, << >>, FALSE)

\* flag = c.is_superset(&d)
IsSuperset ==
    /\ Fresh
    /\ \E ord_c \in Orders(DOMAIN c), ord_d \in Orders(DOMAIN d) :
        Returns("is_superset", c, new, is_superset(c, d, ord_c, ord_d), << >>, 0, << >>, FALSE)

\* flag = c.is_subset(&d)
IsSubset ==
    /\ Fresh
    /\ \E ord_c \in Orders(DOMAIN c), ord_d \in Orders(DOMAIN d) :
        Returns("is_subset", c, new, is_subset(c, d, ord_c, ord_d), << >>, 0, << >>, FALSE)

\* c = Counter::init(S): an associated function, it starts from Counter::new()
InitFrom ==
    /\ Fresh
    /\ \E S \in Seqs(Keys) :
        /\ op' = "init"
        /\ pre_c' = new
        /\ c' = init(S)
        /\ c0' = new
        /\ seq' = S
        /\ fed' = S
        /\ UNCHANGED <<d, out, flag, k, ranked, panicked, idx_key, val,
                       tie, tie_calls, peeked>>

\* c.update(S); on a counter that started empty the call may be repeated
\* while fewer than MaxLen elements have been counted
Update ==
    /\ Built \/ (op = "update" /\ c0 = new /\ Len(fed) < MaxLen)
    /\ \E S \in Seqs(Keys) :
           Returns("update", update(c, S), new, FALSE, S, 0, << >>, FALSE)

\* c.subtract(S)
Subtract ==
    /\ Built
    /\ \E S \in Seqs(Keys) :
        Returns("subtract", subtract(c, S), new, FALSE, S, 0, << >>, FALSE)

\* a ranking query: the vector returned, the closure it was given, the pairs
\* of keys the closure may have been called with and the heap sizes peeked at
Ranks(name, kk, vec, failed, tiebreaker, invoked, sizes) ==
    /\ op' = name
    /\ pre_c' = c
    /\ k' = kk
    /\ ranked' = vec
    /\ panicked' = failed
    /\ tie' = tiebreaker
    /\ tie_calls' = invoked
    /\ peeked' = sizes
    /\ UNCHANGED <<c, d, out, flag, seq, c0, idx_key, val, fed>>

\* ranked = c.most_common_tiebreaker(tiebreaker)
MostCommonTiebreaker ==
    /\ Fresh
    /\ \E ord \in Orders(DOMAIN c), tiebreaker \in TieBreakers(DOMAIN c) :
        Ranks("most_common_tiebreaker", 0, most_common_tiebreaker(c, ord, tiebreaker),
              FALSE, tiebreaker, most_common_tiebreaker_calls(c), {})

\* ranked = c.most_common_ordered()
MostCommonOrdered ==
    /\ Fresh
    /\ \E ord \in Orders(DOMAIN c) :
        Ranks("most_common_ordered", 0, most_common_ordered(c, ord), FALSE,
              ord_cmp(DOMAIN c), most_common_tiebreaker_calls(c), {})

\* ranked = c.k_most_common_ordered(kk)
KMostCommonOrdered ==
    /\ Fresh
    /\ \E kk \in 0..(MaxRankKey + 1), ord \in Orders(DOMAIN c) :
        Ranks("k_most_common_ordered", kk, k_most_common_ordered(c, ord, kk),
              k_most_common_panics(c, ord, kk),
              IF k_most_common_sorts(c, kk) THEN ord_cmp(DOMAIN c) ELSE << >>,
              IF k_most_common_sorts(c, kk) THEN most_common_tiebreaker_calls(c) ELSE {},
              k_most_common_peeks(c, ord, kk))

\* c += d
AddAssign ==
    /\ Fresh
    /\ \E ord \in Orders(DOMAIN d) :
        Returns("add_assign", add_assign(c, d, ord), new, FALSE, << >>, 0, << >>, FALSE)

\* out = c + d
Add ==
    /\ Fresh
    /\ \E ord \in Orders(DOMAIN d) :
        Returns("add", c, add(c, d, ord), FALSE, << >>, 0, << >>, FALSE)

\* c -= d, on operands as built or right after c += d
SubAssign ==
    /\ op \in {"new", "add_assign"}
    /\ \E ord \in Orders(DOMAIN d) :
        Returns("sub_assign", sub_assign(c, d, ord), new, FALSE, << >>, 0, << >>, FALSE)

\* out = c - d
Sub ==
    /\ Fresh
    /\ \E ord \in Orders(DOMAIN d) :
        Returns("sub", c, sub(c, d, ord), FALSE, << >>, 0, << >>, FALSE)

\* c += S for an iterable of keys
AddAssignIter ==
    /\ Built
    /\ \E S \in Seqs(Keys) :
        Returns("add_assign_iter", add_assign_iter(c, S), new, FALSE, S, 0, << >>, FALSE)

\* c.extend(S) for an iterable of keys
Extend ==
    /\ Built
    /\ \E S \in Seqs(Keys) :
        Returns("extend", extend(c, S), new, FALSE, S, 0, << >>, FALSE)

\* c -= S for an iterable of keys
SubAssignIter ==
    /\ Built
    /\ \E S \in Seqs(Keys) :
        Returns("sub_assign_iter", sub_assign_iter(c, S), new, FALSE, S, 0, << >>, FALSE)

\* val = c[&x]
Index ==
    /\ Fresh
    /\ \E x \in Keys :
        /\ op' = "index"
        /\ pre_c' = c
        /\ idx_key' = x
        /\ val' = index(c, x)
        /\ UNCHANGED <<c, d, out, flag, seq, k, ranked, panicked, c0,
                       tie, tie_calls, peeked, fed>>

\* let _ = &mut c[&x]; val is the count in the slot
IndexMut ==
    /\ Fresh
    /\ \E x \in Keys :
        /\ op' = "index_mut"
        /\ pre_c' = c
        /\ c' = index_mut(c, x)
        /\ idx_key' = x
        /\ val' = index_mut(c, x)[x]
        /\ UNCHANGED <<d, out, flag, seq, k, ranked, panicked, c0,
                       tie, tie_calls, peeked, fed>>

\* val = c.total(), on a counter as built or after init and update
Total ==
    /\ op \in {"new", "init", "update"}
    /\ op' = "total"
    /\ val' = total(c)
    /\ UNCHANGED <<c, d, pre_c, out, flag, seq, k, ranked, panicked, c0, idx_key,
                   tie, tie_calls, peeked, fed>>

\* val = c.len(), on a counter as built or after init and update
MapLen ==
    /\ op \in {"new", "init", "update"}
    /\ op' = "len"
    /\ val' = map_len(c)
    /\ UNCHANGED <<c, d, pre_c, out, flag, seq, k, ranked, panicked, c0, idx_key,
                   tie, tie_calls, peeked, fed>>

\* c.remove(&x): HashMap::remove on the map, reached through DerefMut
MapRemove ==
    /\ op \in {"new", "index_mut"}
    /\ \E x \in Keys :
        /\ op' = "map_remove"
        /\ pre_c' = c
        /\ c' = remove(c, x)
        /\ idx_key' = x
        /\ val' = zero
        /\ UNCHANGED <<d, out, flag, seq, k, ranked, panicked, c0,
                       tie, tie_calls, peeked, fed>>

\* flag = (c == d)
Eq ==
    /\ op \in {"new", "index_mut", "map_remove"}
    /\ op' = "eq"
    /\ flag' = eq(c, d)
    /\ UNCHANGED <<c, d, pre_c, out, seq, k, ranked, panicked, c0, idx_key, val,
                   tie, tie_calls, peeked, fed>>

\* c = S.collect::<Counter<_, _>>() for an iterable of (item, count) tuples
FromIterTuples ==
    /\ Fresh
    /\ \E S \in TupleSeqs(Keys) :
        /\ op' = "from_iter"
        /\ pre_c' = new
        /\ c' = from_iter(S)
        /\ c0' = from_iter(S)
        /\ seq' = S
        /\ UNCHANGED <<d, out, flag, k, ranked, panicked, idx_key, val,
                       tie, tie_calls, peeked, fed>>

\* c.extend(S) for an iterable of (item, count) tuples
ExtendTuples ==
    /\ Fresh
    /\ \E S \in TupleSeqs(Keys) :
        Returns("extend_tuples", extend_tuples(c, S), new, FALSE, S, 0, << >>, FALSE)

\* --------------------------------------------------------- specifications
Start(K) ==
    /\ c \in Counters(K)
    /\ pre_c = c
    /\ op = "new"
    /\ out = new
    /\ flag = FALSE
    /\ seq = << >>
    /\ k = 0
    /\ ranked = << >>
    /\ panicked = FALSE
    /\ c0 = c
    /\ idx_key = 0
    /\ val = zero
    /\ tie = << >>
    /\ tie_calls = {}
    /\ peeked = {}
    /\ fed = << >>

\* two counters of any content and the operations that combine or compare them
Init == Start(Keys) /\ d \in Counters(Keys)

Next ==
    \/ BitAnd
    \/ BitAndAssign
    \/ BitOr
    \/ BitOrAssign
    \/ IsSuperset
    \/ IsSubset

Spec == Init /\ [][Next]_vars

\* one counter fed with sequences of keys
InitSeq == Start(Keys) /\ d = new

NextSeq ==
    \/ InitFrom
    \/ Update
    \/ Subtract
    \/ AddAssignIter
    \/ SubAssignIter
    \/ Extend
    \/ Index
    \/ IndexMut

SpecSeq == InitSeq /\ [][NextSeq]_vars

\* two counters of any content and the additive and subtractive merges
NextArith ==
    \/ AddAssign
    \/ Add
    \/ SubAssign
    \/ Sub

SpecArith == Init /\ [][NextArith]_vars

\* two counters that Counter::init built, and the operations that are said to
\* keep every stored count positive
Collected == {init(S) : S \in Seqs(Keys)}

InitSparse ==
    /\ c \in Collected
    /\ d \in Collected
    /\ pre_c = c
    /\ op = "new"
    /\ out = new
    /\ flag = FALSE
    /\ seq = << >>
    /\ k = 0
    /\ ranked = << >>
    /\ panicked = FALSE
    /\ c0 = c
    /\ idx_key = 0
    /\ val = zero
    /\ tie = << >>
    /\ tie_calls = {}
    /\ peeked = {}
    /\ fed = << >>

NextSparse ==
    \/ InitFrom
    \/ Update
    \/ Subtract
    \/ AddAssign
    \/ SubAssign
    \/ BitAnd
    \/ BitOr
    \/ BitAndAssign
    \/ BitOrAssign

SpecSparse == InitSparse /\ [][NextSparse]_vars

\* two counters compared after a mutable index or a removal through the map
NextEq ==
    \/ IndexMut
    \/ MapRemove
    \/ Eq

SpecEq == Init /\ [][NextEq]_vars

\* one counter, counting elements and asked for its totals
NextCount ==
    \/ InitFrom
    \/ Update
    \/ Total
    \/ MapLen

SpecCount == InitSeq /\ [][NextCount]_vars

\* one counter fed with sequences of (item, count) tuples
NextTuples ==
    \/ FromIterTuples
    \/ ExtendTuples

SpecTuples == InitSeq /\ [][NextTuples]_vars

\* one counter and its ranking queries
InitRank == Start(RankKeys) /\ d = new

NextRank ==
    \/ MostCommonTiebreaker
    \/ MostCommonOrdered
    \/ KMostCommonOrdered

SpecRank == InitRank /\ [][NextRank]_vars

\* ----------------------------------------------------------------- claims
\* what an indexed read of a counter gives: the stored count, zero when absent
CountOf(map, x) == IF x \in DOMAIN map THEN map[x] ELSE 0

Minimum(a, b) == CHOOSE m \in {a, b} : m <= a /\ m <= b

Maximum(a, b) == CHOOSE m \in {a, b} : m >= a /\ m >= b

\* Vec::truncate as the tests slice it: the first len elements
Prefix(vec, len) == SubSeq(vec, 1, IF len <= Len(vec) THEN len ELSE Len(vec))

\* C1: k_most_common_ordered(k) is exactly the first min(k, n) elements of
\* most_common_ordered(), same pairs in the same order, whatever the
\* iteration order of the map in either call.
TopKIsPrefixOfFullRanking ==
    op = "k_most_common_ordered" =>
        \A ord \in Orders(DOMAIN c) :
            ranked = Prefix(most_common_ordered(c, ord), k)

\* C1 witness: three keys of equal count, top 2 asked: the heap scan has to
\* settle the tie and the two smallest keys come out in increasing order.
TopKTieWitness ==
    /\ op = "k_most_common_ordered"
    /\ k = 2
    /\ DOMAIN c = {1, 2, 3}
    /\ c[1] = c[2]
    /\ c[2] = c[3]
    /\ ~panicked
    /\ Len(ranked) = 2
    /\ ranked[1][1] = 1
    /\ ranked[2][1] = 2

IntersectionReadsMin ==
    op = "bitand" =>
        \A x \in Keys : CountOf(out, x) = Minimum(CountOf(c, x), CountOf(d, x))

\* C4: for every key x stored in c or in d the indexed read (c | d)[x] is
\* max(c[x], d[x]), a key that is not stored reading as zero, negative stored
\* counts included.
UnionReadsMax ==
    op = "bitor" =>
        \A x \in (DOMAIN c) \cup (DOMAIN d) :
            CountOf(out, x) = Maximum(CountOf(c, x), CountOf(d, x))

\* C5: the keys stored in c | d are exactly the keys stored in c or in d.
UnionStoresKeysOfBoth ==
    op = "bitor" => DOMAIN out = (DOMAIN c) \cup (DOMAIN d)

\* C5 witness: a key stored only on the left and a key stored only on the
\* right with a negative count are both stored in the union.
UnionKeysWitness ==
    /\ op = "bitor"
    /\ DOMAIN c = {1}
    /\ DOMAIN d = {2}
    /\ d[2] < 0
    /\ DOMAIN out = {1, 2}

\* C6: after c &= d, for every key x the indexed read c[x] is
\* min(old c[x], d[x]), a key that is not stored reading as zero.
InPlaceIntersectionReadsMin ==
    op = "bitand_assign" =>
        \A x \in Keys : CountOf(c, x) = Minimum(CountOf(pre_c, x), CountOf(d, x))

\* C7: c |= d leaves c equal to the counter that c | d returns on the same
\* operands.
InPlaceUnionEqualsUnion ==
    op = "bitor_assign" =>
        \A ord \in Orders(DOMAIN d) : c = bitor(pre_c, d, ord)

\* C8: a.is_subset(b) is true exactly when b.is_superset(a) is true, whatever
\* the counts and the iteration orders.
SubsetIffSuperset ==
    /\ op = "is_subset" =>
           \A ord_c \in Orders(DOMAIN c), ord_d \in Orders(DOMAIN d) :
               flag = is_superset(d, c, ord_d, ord_c)
    /\ op = "is_superset" =>
           \A ord_c \in Orders(DOMAIN c), ord_d \in Orders(DOMAIN d) :
               flag = is_subset(d, c, ord_d, ord_c)

\* C8 witness: c.is_superset(d) answered true for a c with a stored zero entry
\* and a d that stores negative counts, one of them for a key c does not store.
SupersetSignedWitness ==
    /\ op = "is_superset"
    /\ flag
    /\ DOMAIN c = {1}
    /\ c[1] = 0
    /\ DOMAIN d = {1, 2}
    /\ d[1] < 0
    /\ d[2] < 0

\* C9: a.is_subset(b) is true if and only if a[key] <= b[key] for every key
\* stored in a or in b, a key that is not stored reading as zero.
SubsetIffEveryCountAtMost ==
    op = "is_subset" =>
        (flag <=> \A x \in (DOMAIN c) \cup (DOMAIN d) : CountOf(c, x) <= CountOf(d, x))

\* C9 witness: every key of c is within d, but d stores a negative count for a
\* key that c does not store, and the answer is false.
SubsetNegativeAbsentWitness ==
    /\ op = "is_subset"
    /\ ~flag
    /\ DOMAIN c = {1}
    /\ DOMAIN d = {1, 2}
    /\ c[1] <= d[1]
    /\ d[2] < 0

\* C10: subtract(S) on the counter that init(S) built leaves no entry.
InitThenSubtractIsEmpty ==
    (op = "subtract" /\ pre_c = init(seq)) => c = new

\* C10 witness: S = <<1, 2, 1>> was counted (1 twice, 2 once) and then
\* subtracted, and the store is empty.
RoundTripWitness ==
    /\ op = "subtract"
    /\ seq = <<1, 2, 1>>
    /\ DOMAIN pre_c = {1, 2}
    /\ pre_c[1] = 2
    /\ pre_c[2] = 1
    /\ c = new

\* an unsigned count type holds no negative count
Unsigned(map) == \A x \in DOMAIN map : map[x] >= 0

\* the receiver before the last call is c0 + d
AfterMerge == \E ord \in Orders(DOMAIN d) : pre_c = add_assign(c0, d, ord)

\* C11 as stated: for all counters a and b of an unsigned count type,
\* (a + b) - b is equal to a.
MergeThenDifferenceRestores ==
    (op = "sub_assign" /\ Unsigned(c0) /\ Unsigned(d) /\ AfterMerge) => c = c0

\* C11 amended: for all counters a and b of an unsigned count type where every
\* count stored in a is greater than zero, (a + b) - b is equal to a.
MergeThenDifferenceRestoresPositive ==
    (/\ op = "sub_assign"
     /\ Unsigned(c0)
     /\ Unsigned(d)
     /\ AfterMerge
     /\ \A x \in DOMAIN c0 : c0[x] > 0) => c = c0

\* C11 witness: a = {1: 1}, b = {1: 1, 2: 1}; a + b = {1: 2, 2: 1} was the
\* receiver of the difference, which gave a back.
MergeDifferenceWitness ==
    /\ op = "sub_assign"
    /\ DOMAIN c0 = {1}
    /\ c0[1] = 1
    /\ DOMAIN d = {1, 2}
    /\ d[1] = 1
    /\ d[2] = 1
    /\ DOMAIN pre_c = {1, 2}
    /\ pre_c[1] = 2
    /\ pre_c[2] = 1
    /\ c = c0

\* the counter a merge left: the receiver of c += d and c -= d, the value
\* returned by c + d and c - d
Merged == IF op \in {"add", "sub"} THEN out ELSE c

\* C12: after c -= d (and c - d), a key x is stored in the result if and only
\* if old c[x] - d[x] is greater than zero, and then with that count, a key
\* that is not stored reading as zero.
DifferenceKeepsPositiveRemainders ==
    op \in {"sub_assign", "sub"} =>
        \A x \in Keys :
            LET remainder == CountOf(pre_c, x) - CountOf(d, x)
            IN  /\ x \in DOMAIN Merged <=> remainder > 0
                /\ x \in DOMAIN Merged => Merged[x] = remainder

\* C13: after a -= b, every key stored in b is either not stored in a or
\* stored in a with a count greater than zero.
DifferenceLeavesTouchedKeysPositive ==
    op = "sub_assign" =>
        \A x \in DOMAIN d : x \notin DOMAIN c \/ c[x] > 0

\* C13 witness: signed counts; key 1 held 0 and b holds -1 for it, so 1 is
\* stored; key 2 held -1 against b's 1 and is removed.
DifferenceSignedWitness ==
    /\ op = "sub_assign"
    /\ DOMAIN pre_c = {1, 2}
    /\ pre_c[1] = 0
    /\ pre_c[2] = 0 - 1
    /\ DOMAIN d = {1, 2}
    /\ d[1] = 0 - 1
    /\ d[2] = 1
    /\ DOMAIN c = {1}
    /\ c[1] = 1

\* C16: after c += d (and c + d), every key x reads old c[x] + d[x] and every
\* key stored in old c or in d is stored: no entry is removed.
MergeAddsCountsAndKeepsKeys ==
    op \in {"add_assign", "add"} =>
        /\ DOMAIN Merged = (DOMAIN pre_c) \cup (DOMAIN d)
        /\ \A x \in Keys : CountOf(Merged, x) = CountOf(pre_c, x) + CountOf(d, x)

\* C16 witness: key 1 held 1 and d holds -1 for it: it stays stored with the
\* sum zero; key 2 is stored in d alone and is stored in the result.
MergeZeroSumWitness ==
    /\ op = "add_assign"
    /\ DOMAIN pre_c = {1}
    /\ pre_c[1] = 1
    /\ DOMAIN d = {1, 2}
    /\ d[1] = 0 - 1
    /\ DOMAIN c = {1, 2}
    /\ c[1] = 0
    /\ c[2] = d[2]

\* C17: a + b is equal to b + a, whatever the stored counts and the iteration
\* orders.
MergeCommutes ==
    op = "add" => \A ord \in Orders(DOMAIN c) : out = add(d, c, ord)

\* C17 witness: a stores a zero for a key b does not store, b a negative
\* count for a key a does not store; a + b stores both.
MergeCommutesWitness ==
    /\ op = "add"
    /\ DOMAIN c = {1}
    /\ c[1] = 0
    /\ DOMAIN d = {2}
    /\ d[2] < 0
    /\ DOMAIN out = {1, 2}
    /\ out[1] = 0

\* the number of times x occurs in the sequence s
Occurrences(s, x) == Cardinality({i \in 1..Len(s) : s[i] = x})

Elements(s) == {s[i] : i \in 1..Len(s)}

\* C14: after c.subtract(S), no key that occurs in S is stored in c with a
\* count equal to zero, whatever c held before the call.
SubtractLeavesNoZeroForTouchedKeys ==
    op = "subtract" =>
        \A x \in Elements(seq) : x \notin DOMAIN c \/ c[x] # 0

\* C14 witness: key 1 was stored with a zero before the call, occurs in S and
\* is no longer stored; the other key of c is untouched.
SubtractZeroEntryWitness ==
    /\ op = "subtract"
    /\ DOMAIN pre_c = {1, 2}
    /\ pre_c[1] = 0
    /\ seq = <<1>>
    /\ DOMAIN c = {2}

\* C15: after c.subtract(S), every key that occurs in S is either not stored
\* in c or stored with a count strictly greater than zero, also when the key
\* held a negative count before the call.
SubtractRemovesNonPositive ==
    op = "subtract" =>
        \A x \in Elements(seq) : x \notin DOMAIN c \/ c[x] > 0

\* C18: after c.update(S), c += S or c.extend(S), every key x reads old c[x]
\* plus the number of occurrences of x in S, every key occurring in S is
\* stored, and a key not occurring in S is stored exactly when it was.
UpdateAddsOccurrences ==
    op \in {"update", "add_assign_iter", "extend"} =>
        \A x \in Keys :
            /\ CountOf(c, x) = CountOf(pre_c, x) + Occurrences(seq, x)
            /\ Occurrences(seq, x) > 0 => x \in DOMAIN c
            /\ Occurrences(seq, x) = 0 =>
                   (x \in DOMAIN c <=> x \in DOMAIN pre_c)

\* C18 witness: c += S where key 1, stored with zero, occurs twice and key 2,
\* not stored, occurs once.
UpdateRepeatedKeyWitness ==
    /\ op = "add_assign_iter"
    /\ DOMAIN pre_c = {1}
    /\ pre_c[1] = 0
    /\ seq = <<1, 2, 1>>
    /\ DOMAIN c = {1, 2}
    /\ c[1] = 2
    /\ c[2] = 1

\* C19: an indexed read c[key] returns the stored count when the key is stored
\* and zero when it is not, and leaves the store as it was: the same stored
\* keys with the same counts.
IndexReadsWithoutStoring ==
    op = "index" =>
        /\ idx_key \in DOMAIN pre_c => val = pre_c[idx_key]
        /\ idx_key \notin DOMAIN pre_c => val = 0
        /\ DOMAIN c = DOMAIN pre_c
        /\ \A x \in DOMAIN c : c[x] = pre_c[x]

\* C19 witness: a read of a key that is not stored, next to a stored negative
\* count, returns zero and the key stays absent.
IndexAbsentKeyWitness ==
    /\ op = "index"
    /\ idx_key = 2
    /\ DOMAIN pre_c = {1}
    /\ pre_c[1] < 0
    /\ val = 0
    /\ DOMAIN c = {1}

\* C20: index_mut on a key that is not stored increases the number of stored
\* keys by exactly one, the new entry holds zero and every other entry is
\* unchanged; on a stored key it changes neither the number of stored keys
\* nor any stored count.
IndexMutMaterializesOneZero ==
    op = "index_mut" =>
        /\ idx_key \notin DOMAIN pre_c =>
               /\ Cardinality(DOMAIN c) = Cardinality(DOMAIN pre_c) + 1
               /\ DOMAIN c = (DOMAIN pre_c) \cup {idx_key}
               /\ c[idx_key] = 0
               /\ val = 0
               /\ \A x \in DOMAIN pre_c : c[x] = pre_c[x]
        /\ idx_key \in DOMAIN pre_c =>
               /\ Cardinality(DOMAIN c) = Cardinality(DOMAIN pre_c)
               /\ DOMAIN c = DOMAIN pre_c
               /\ \A x \in DOMAIN pre_c : c[x] = pre_c[x]
               /\ val = pre_c[idx_key]

\* C20 witness: the slot of key 2 is taken while only key 1 is stored: two
\* keys are stored afterwards, key 2 with zero.
IndexMutAbsentKeyWitness ==
    /\ op = "index_mut"
    /\ idx_key = 2
    /\ DOMAIN pre_c = {1}
    /\ pre_c[1] = 1
    /\ DOMAIN c = {1, 2}
    /\ c[2] = 0
    /\ c[1] = 1

\* vec lists every stored pair of self exactly once, counts never increasing,
\* and of two pairs of equal count the one whose key comes first comes first;
\* first is the set of <<a, b>> with a before b
RankedBy(vec, self, first) ==
    /\ Len(vec) = Cardinality(DOMAIN self)
    /\ {vec[i] : i \in 1..Len(vec)} = {<<x, self[x]>> : x \in DOMAIN self}
    /\ \A i, j \in 1..Len(vec) :
           i < j => \/ vec[i][2] > vec[j][2]
                    \/ vec[i][2] = vec[j][2] /\ <<vec[i][1], vec[j][1]>> \in first

\* C21: most_common_tiebreaker(cmp) returns every stored pair exactly once, in
\* non-increasing order of count, pairs of equal count in the order cmp gives,
\* for every total order cmp on the keys; most_common_ordered() is that
\* ranking with ascending keys as the tie-break, whatever the iteration order
\* of the map.
FullRankingSortedWithTieBreak ==
    /\ op = "most_common_tiebreaker" =>
           RankedBy(ranked, c, {p \in DOMAIN tie : tie[p] = "Less"})
    /\ op = "most_common_ordered" =>
           RankedBy(ranked, c, {p \in (DOMAIN c) \X (DOMAIN c) : p[1] < p[2]})

\* C21 witness: keys 1 and 2 tie below key 3 and the closure puts 2 before 1:
\* the ranking is 3, 2, 1.
RankingReversedTieWitness ==
    /\ op = "most_common_tiebreaker"
    /\ DOMAIN c = {1, 2, 3}
    /\ c[1] = c[2]
    /\ c[3] > c[1]
    /\ tie[<<2, 1>>] = "Less"
    /\ ranked = <<<<3, c[3]>>, <<2, c[2]>>, <<1, c[1]>>>>

\* C22: during most_common_tiebreaker the caller's closure is invoked only on
\* two keys whose stored counts are equal.
TieBreakerCalledOnTiesOnly ==
    op \in {"most_common_tiebreaker", "most_common_ordered", "k_most_common_ordered"} =>
        \A p \in tie_calls : c[p[1]] = c[p[2]]

\* C22 witness: keys 1 and 2 tie, key 3 has another count: the closure may see
\* 1 with 2 and never sees 3.
TieCallsWitness ==
    /\ op = "most_common_tiebreaker"
    /\ DOMAIN c = {1, 2, 3}
    /\ c[1] = c[2]
    /\ c[3] # c[1]
    /\ tie_calls = {<<1, 2>>, <<2, 1>>}

\* C25: in k_most_common_ordered every peek at the root finds a heap that is
\* not empty, so the call never fails with "the heap is empty", and the heap
\* holds exactly k elements at every peek and at the end of the scan.
HeapHoldsKThroughoutScan ==
    op = "k_most_common_ordered" =>
        /\ ~panicked
        /\ \A size \in peeked : size = k /\ size > 0
        /\ (0 < k /\ k < Cardinality(DOMAIN c)) =>
               (peeked = {k} /\ Len(ranked) = k)

\* C25 witness: top 1 of three keys whose counts make the root change during
\* the scan; the heap held one element at each peek.
HeapScanWitness ==
    /\ op = "k_most_common_ordered"
    /\ k = 1
    /\ DOMAIN c = {1, 2, 3}
    /\ c[1] < c[2]
    /\ c[2] < c[3]
    /\ peeked = {1}
    /\ ranked = <<<<3, c[3]>>>>
    /\ ~panicked

\* the sum of the counts given for x in a sequence of (item, count) tuples
RECURSIVE SumFor(_, _)
SumFor(s, x) ==
    IF s = << >> THEN 0
    ELSE (IF Head(s)[1] = x THEN Head(s)[2] ELSE 0) + SumFor(Tail(s), x)

Items(s) == {s[i][1] : i \in 1..Len(s)}

\* C23: a counter collected from (key, count) pairs stores exactly the keys
\* given, each with the sum of the counts given for it; extending a counter
\* with (key, count) pairs adds that sum to the count the key had before.
TuplesAreSummedPerKey ==
    /\ op = "from_iter" =>
           /\ DOMAIN c = Items(seq)
           /\ \A x \in DOMAIN c : c[x] = SumFor(seq, x)
    /\ op = "extend_tuples" =>
           /\ DOMAIN c = (DOMAIN pre_c) \cup Items(seq)
           /\ \A x \in DOMAIN c : c[x] = CountOf(pre_c, x) + SumFor(seq, x)

\* C23 witness: key 1 is given twice with count 1 to a counter that stores it
\* with 1: it is stored with 3.
TuplesDuplicateWitness ==
    /\ op = "extend_tuples"
    /\ DOMAIN pre_c = {1}
    /\ pre_c[1] = 1
    /\ seq = <<<<1, 1>>, <<1, 1>>>>
    /\ DOMAIN c = {1}
    /\ c[1] = 3

\* the sum of the counts stored for the keys 1..n
RECURSIVE SumUpTo(_, _)
SumUpTo(map, n) == IF n = 0 THEN 0 ELSE CountOf(map, n) + SumUpTo(map, n - 1)

StoredSum(map) == SumUpTo(map, MaxKey)

\* C24: total() returns the sum of all stored counts; on a counter that
\* started empty and was changed only by init and update calls, total() is
\* the number of elements fed in and len() the number of distinct elements
\* fed in.
TotalCountsWhatWasFed ==
    /\ op = "total" => val = StoredSum(c)
    /\ op = "len" => val = Cardinality(DOMAIN c)
    /\ (c0 = new /\ op \in {"init", "update", "total", "len"}) =>
           /\ StoredSum(c) = Len(fed)
           /\ Cardinality(DOMAIN c) = Cardinality(Elements(fed))
           /\ op = "total" => val = Len(fed)
           /\ op = "len" => val = Cardinality(Elements(fed))

\* C24 witness: init(<<1, 2>>), then update(<<1>>), then total(): three
\* elements fed in, two of them distinct, and total() is 3.
TotalAfterTwoFeedsWitness ==
    /\ op = "total"
    /\ c0 = new
    /\ fed = <<1, 2, 1>>
    /\ seq = <<1>>
    /\ DOMAIN c = {1, 2}
    /\ val = 3

\* C26: for every counter c with any stored counts and every sequence S of
\* keys, c.subtract(S) and c -= S leave the same store as c -= Counter::init(S).
SubtractIterableEqualsSubtractCounter ==
    op \in {"subtract", "sub_assign_iter"} =>
        \A ord \in Orders(DOMAIN init(seq)) : c = sub_assign(pre_c, init(seq), ord)

\* C27: counters of an unsigned count type that start empty and are changed
\* only by init, update, subtract, +=, -=, &, |, &= and |=, with operands
\* built the same way, store only counts greater than zero.
StoredCountsArePositive ==
    /\ \A x \in DOMAIN c : c[x] > 0
    /\ \A x \in DOMAIN d : d[x] > 0
    /\ \A x \in DOMAIN out : out[x] > 0

\* C27 witness: c -= d takes key 2 down to zero and removes it, key 1 keeps a
\* positive remainder.
SparseDifferenceWitness ==
    /\ op = "sub_assign"
    /\ DOMAIN pre_c = {1, 2}
    /\ pre_c[1] = 2
    /\ pre_c[2] = 1
    /\ DOMAIN d = {1, 2}
    /\ d[1] = 1
    /\ d[2] = 1
    /\ DOMAIN c = {1}
    /\ c[1] = 1

\* C28: for all counters a and b, negative stored counts included, a | b is
\* equal to b | a.
UnionCommutes ==
    op = "bitor" => \A ord \in Orders(DOMAIN c) : out = bitor(d, c, ord)

\* C29: for all counters a and b, negative stored counts included,
\* (a & b).is_subset(a) and (a & b).is_subset(b) are both true.
IntersectionIsSubsetOfOperands ==
    op = "bitand" =>
        \A ord_out \in Orders(DOMAIN out), ord_c \in Orders(DOMAIN c),
           ord_d \in Orders(DOMAIN d) :
            /\ is_subset(out, c, ord_out, ord_c)
            /\ is_subset(out, d, ord_out, ord_d)

\* every indexed read gives the same value on both counters
SameReads(a, b) == \A x \in Keys : CountOf(a, x) = CountOf(b, x)

\* C30: c == d is true if and only if c and d store the same keys with the
\* same counts; a counter that stores a key with zero is not equal to the
\* otherwise identical counter without that key, although every indexed read
\* agrees; after a key is removed through the map the counter is equal to one
\* that never held the key.
EqualityIsStructural ==
    /\ op = "eq" =>
           (flag <=> (DOMAIN c = DOMAIN d /\ \A x \in DOMAIN c : c[x] = d[x]))
    /\ (op = "eq" /\ SameReads(c, d) /\ DOMAIN c # DOMAIN d) => ~flag
    /\ op = "map_remove" =>
           /\ DOMAIN c = (DOMAIN pre_c) \ {idx_key}
           /\ \A x \in DOMAIN c : c[x] = pre_c[x]
    /\ (op = "eq" /\ idx_key \in DOMAIN pre_c /\ idx_key \notin DOMAIN c
           /\ idx_key \notin DOMAIN d
           /\ DOMAIN pre_c = (DOMAIN d) \cup {idx_key}
           /\ (\A x \in DOMAIN d : pre_c[x] = d[x])) => flag

\* C30 witness: c was equal to d, then the slot of key 2 was taken: c stores
\* 2 with zero, every read agrees with d, and c == d is false.
ZeroEntryNotEqualWitness ==
    /\ op = "eq"
    /\ idx_key = 2
    /\ pre_c = d
    /\ DOMAIN d = {1}
    /\ DOMAIN c = {1, 2}
    /\ c[2] = 0
    /\ SameReads(c, d)
    /\ ~flag

====
